---- MODULE Spec2Model ----
(***************************************************************************)
(* jquery.tappable.js: the handlers that $.fn.tappable binds on one        *)
(* element, the timers they schedule with window.setTimeout, and the       *)
(* element's three CSS classes.                                            *)
(*                                                                         *)
(* Program state: classes, timers and the configuration read from the      *)
(* options (touchSupported, callback, cancelOnMove, onlyIf).               *)
(* Observers (history of the run, written by no handler): calls, cycle,    *)
(* callsFor, callsSince, cancelled, tapEnded, finger, wellFormed, scen,    *)
(* scenCalls, scenHi, lastEvent, guardResult.                              *)
(***************************************************************************)
EXTENDS Naturals, Sequences, FiniteSets

\* Bounds of the exploration.
MaxStarts == 3      \* guard-accepted touchstarts (= timers ever scheduled)
MaxClicks == 2      \* callback calls made by the click fallback
ScenLen == 3        \* events observed after a touchstart on a pristine element

VARIABLES
  touchSupported,   \* 'ontouchstart' in window
  callback,         \* typeof callback: "function" or "undefined"
  cancelOnMove,     \* BOOLEAN
  onlyIf,           \* "default" (function() { return true }) or "custom"
  touchDelay,       \* the delay passed to window.setTimeout
  classes,          \* the element's classes among Markers
  timers,           \* outstanding setTimeout callbacks, oldest first; each
                    \* entry is the touchstart (cycle number) it captured
  calls,            \* number of callback.call(...) made so far
  cycle,            \* number of guard-accepted touchstarts so far
  callsFor,         \* calls per cycle: by the touchend of the cycle or by
                    \* the timer the cycle's touchstart scheduled
  callsSince,       \* calls since the latest touchstart event
  cancelled,        \* cycles during which a touchmove was handled
  tapEnded,         \* cycles whose touchend came with no touchmove before it
  finger,           \* "up", "down", "moved" (down and moved), "ignored"
                    \* (down, touchstart rejected by onlyIf)
  wellFormed,       \* touchstart/touchend alternated so far, moves in between
  scen,             \* events since the latest touchstart that found the
                    \* element with no class and no timer (at most ScenLen)
  scenCalls,        \* calls during scen
  scenHi,           \* 'touched' was set at some point of scen
  lastEvent,        \* the handler that ran last
  guardResult,      \* what onlyIf returned in the last step, "none" if it
                    \* was not evaluated, "throw" if it raised an error
  raised            \* the last handler was left by an error of onlyIf or
                    \* of the callback

vars == << touchSupported, callback, cancelOnMove, onlyIf, classes, timers,
           calls, cycle, callsFor, callsSince, cancelled, tapEnded, finger,
           wellFormed, scen, scenCalls, scenHi, lastEvent, guardResult,
           touchDelay, raised >>

config == << touchSupported, callback, cancelOnMove, onlyIf, touchDelay >>

Markers == {"touched", "touch-started", "touch-ended"}

Cycles == 1..MaxStarts

----------------------------------------------------------------------------
\* jQuery class helpers on one element.

hasClass(cls, c) == c \in cls

addClass(cls, c) == cls \cup {c}

removeClass(cls, c) == cls \ {c}

----------------------------------------------------------------------------
\* $.fn.tappable(options): the argument and the configuration read from it.

OptionValues ==
  {[type |-> "function", callback |-> "function",
    cancelOnMove |-> "undefined", onlyIf |-> "undefined",
    touchDelay |-> "undefined"],
   [type |-> "undefined", callback |-> "undefined",
    cancelOnMove |-> "undefined", onlyIf |-> "undefined",
    touchDelay |-> "undefined"]}
  \cup [type : {"object"},
        callback : {"function", "undefined"},
        cancelOnMove : {"undefined", "true", "false"},
        onlyIf : {"undefined", "function"},
        touchDelay : {"undefined", "0", "150"}]

callbackOf(options) ==
  CASE options.type = "function" -> "function"
    [] options.type = "object" -> options.callback
    [] OTHER -> "undefined"

cancelOnMoveOf(options) ==
  IF options.type = "object" /\ options.cancelOnMove # "undefined"
  THEN options.cancelOnMove = "true"
  ELSE TRUE

onlyIfOf(options) ==
  IF options.type = "object" /\ options.onlyIf # "undefined"
  THEN "custom"
  ELSE "default"

\* touchDelay = 0 unless the options give one (0 and 150 are the values of
\* the header comment).
DefaultTouchDelay == 0

touchDelayOf(options) ==
  IF options.type = "object" /\ options.touchDelay # "undefined"
  THEN (IF options.touchDelay = "150" THEN 150 ELSE 0)
  ELSE DefaultTouchDelay

\* The values a call of onlyIf(el) can return (as truth values).
GuardValues == IF onlyIf = "default" THEN {TRUE} ELSE BOOLEAN

\* A caller-supplied onlyIf can raise an error instead of returning; the
\* default one cannot.
GuardThrows == onlyIf = "custom"

\* Mutant: fireCallback does not test typeof callback.
fireCallbackNoTypeCheck(g) == g

\* Mutant: fireCallback does not ask onlyIf again.
fireCallbackNoGuard(g) == callback = "function"

\* fireCallback(el, event): whether callback.call(el, event) is made, given
\* what onlyIf(el) returns.
fireCallback(g) == callback = "function" /\ g

\* The outcomes of a call of fireCallback: onlyIf is evaluated only when the
\* callback is a function (&& short-circuits).
\* The outcomes in which onlyIf returns and the callback, if called, returns.
FireReturns ==
  {[guard |-> IF g THEN "true" ELSE "false", fired |-> fireCallback(g),
    raised |-> FALSE] : g \in GuardValues}

\* Plus those in which the callback is called and raises an error, and the
\* one in which onlyIf raises (no call made).
FireOutcomes ==
  IF callback = "function"
  THEN FireReturns
       \cup {[o EXCEPT !.raised = TRUE] : o \in {r \in FireReturns : r.fired}}
       \cup (IF GuardThrows
             THEN {[guard |-> "throw", fired |-> FALSE, raised |-> TRUE]}
             ELSE {})
  ELSE {[guard |-> "none", fired |-> fireCallback(TRUE), raised |-> FALSE]}

NoFire == {[guard |-> "none", fired |-> FALSE, raised |-> FALSE]}

----------------------------------------------------------------------------
\* The handlers' effect on the element's classes, and whether they reach
\* fireCallback.

\* Mutant: the touchstart handler does not remove 'touch-ended'.
TouchStartClassesKeepEnded(cls) ==
  addClass(removeClass(cls, "touched"), "touch-started")

TouchStartClasses(cls) ==
  addClass(removeClass(removeClass(cls, "touched"), "touch-ended"),
           "touch-started")

\* Mutant: the timer looks at the wrong class before firing.
TimerFiresWhenStarted(cls) == hasClass(cls, "touch-started")

TimerFires(cls) == hasClass(cls, "touch-ended")

\* Mutant: the timer highlights without testing 'touch-started'.
TimerClassesNoStartedCheck(cls) ==
  IF hasClass(cls, "touch-ended") THEN cls ELSE addClass(cls, "touched")

\* Mutant: the timer does not test 'touch-ended' before highlighting.
TimerClassesNoEndedCheck(cls) ==
  IF hasClass(cls, "touch-started") \/ hasClass(cls, "touch-ended")
  THEN addClass(cls, "touched")
  ELSE cls

TimerClasses(cls) ==
  IF hasClass(cls, "touch-ended") THEN cls
  ELSE IF hasClass(cls, "touch-started") THEN addClass(cls, "touched")
  ELSE cls

TouchEndFires(cls) == hasClass(cls, "touched")

\* Mutant: the branches of the touchend handler are tested in the other
\* order.
TouchEndClassesStartedFirst(cls) ==
  IF hasClass(cls, "touch-started")
  THEN addClass(removeClass(cls, "touch-started"), "touch-ended")
  ELSE IF hasClass(cls, "touched") THEN removeClass(cls, "touched")
  ELSE cls

TouchEndClasses(cls) ==
  IF hasClass(cls, "touched") THEN removeClass(cls, "touched")
  ELSE IF hasClass(cls, "touch-started")
       THEN addClass(removeClass(cls, "touch-started"), "touch-ended")
  ELSE cls

\* Mutant: the touchend handler calls fireCallback before removing 'touched'.
TouchEndClassesOnThrowCallFirst(cls) == cls

\* The classes when fireCallback raises in the touchend handler: 'touched'
\* was removed on the line before.
TouchEndClassesOnThrow(cls) == removeClass(cls, "touched")

\* The classes when fireCallback raises in the timer: nothing was changed.
TimerClassesOnThrow(cls) == cls

TouchMoveClasses(cls) ==
  removeClass(removeClass(removeClass(cls, "touched"), "touch-started"),
              "touch-ended")

----------------------------------------------------------------------------
\* Observer updates shared by the actions.

Bump(fired) == IF fired THEN 1 ELSE 0

\* scen after event ev; a touchstart on a pristine element starts a new one,
\* and observation stops after ScenLen events.
ScenStep(ev, startNew) ==
  IF startNew THEN <<ev>>
  ELSE IF scen = <<>> \/ Len(scen) >= ScenLen THEN <<>>
  ELSE Append(scen, ev)

ObserveScen(ev, startNew, fired) ==
  /\ scen' = ScenStep(ev, startNew)
  /\ scenCalls' = IF ScenStep(ev, startNew) = <<>> \/ startNew THEN 0
                  ELSE scenCalls + Bump(fired)
  /\ scenHi' = IF ScenStep(ev, startNew) = <<>> THEN FALSE
               ELSE (~startNew /\ scenHi) \/ hasClass(classes', "touched")

----------------------------------------------------------------------------
Init ==
  /\ touchSupported \in BOOLEAN
  /\ \E options \in OptionValues :
       /\ callback = callbackOf(options)
       /\ cancelOnMove = cancelOnMoveOf(options)
       /\ onlyIf = onlyIfOf(options)
       /\ touchDelay = touchDelayOf(options)
  /\ classes = {}
  /\ timers = <<>>
  /\ calls = 0
  /\ cycle = 0
  /\ callsFor = [c \in Cycles |-> 0]
  /\ callsSince = 0
  /\ cancelled = {}
  /\ tapEnded = {}
  /\ finger = "up"
  /\ wellFormed = TRUE
  /\ scen = <<>>
  /\ scenCalls = 0
  /\ scenHi = FALSE
  /\ lastEvent = "none"
  /\ guardResult = "none"
  /\ raised = FALSE

\* Mutant: with touchDelay = 0 the timer body runs inside the handler.
TouchStartAcceptedSyncAtZero ==
  /\ touchSupported
  /\ TRUE \in GuardValues
  /\ cycle < MaxStarts
  /\ classes' = IF touchDelay = 0
                THEN TimerClasses(TouchStartClasses(classes))
                ELSE TouchStartClasses(classes)
  /\ timers' = IF touchDelay = 0 THEN timers ELSE Append(timers, cycle + 1)
  /\ cycle' = cycle + 1
  /\ guardResult' = "true"
  /\ raised' = FALSE
  /\ lastEvent' = "touchstart"
  /\ finger' = "down"
  /\ wellFormed' = (wellFormed /\ finger = "up")
  /\ callsSince' = 0
  /\ ObserveScen("touchstart", classes = {} /\ timers = <<>>, FALSE)
  /\ UNCHANGED << config, calls, callsFor, cancelled, tapEnded >>

\* touchstart handler: onlyIf(this) true, markers reset, timer scheduled
\* with window.setTimeout(..., touchDelay), which never runs it inside the
\* handler.
TouchStartAccepted ==
  /\ touchSupported
  /\ TRUE \in GuardValues
  /\ cycle < MaxStarts
  /\ classes' = TouchStartClasses(classes)
  /\ timers' = Append(timers, cycle + 1)
  /\ cycle' = cycle + 1
  /\ guardResult' = "true"
  /\ raised' = FALSE
  /\ lastEvent' = "touchstart"
  /\ finger' = "down"
  /\ wellFormed' = (wellFormed /\ finger = "up")
  /\ callsSince' = 0
  /\ ObserveScen("touchstart", classes = {} /\ timers = <<>>, FALSE)
  /\ UNCHANGED << config, calls, callsFor, cancelled, tapEnded >>

\* Mutant: the classes are reset before onlyIf is consulted.
TouchStartRejectedAfterReset ==
  /\ touchSupported
  /\ FALSE \in GuardValues
  /\ guardResult' = "false"
  /\ raised' = FALSE
  /\ lastEvent' = "touchstart"
  /\ finger' = "ignored"
  /\ wellFormed' = (wellFormed /\ finger = "up")
  /\ callsSince' = 0
  /\ classes' = TouchStartClasses(classes)
  /\ UNCHANGED << config, timers, calls, cycle, callsFor, cancelled,
                  tapEnded >>
  /\ ObserveScen("touchstart", FALSE, FALSE)

\* touchstart handler: onlyIf(this) falsy, nothing done.
TouchStartRejected ==
  /\ touchSupported
  /\ FALSE \in GuardValues
  /\ guardResult' = "false"
  /\ raised' = FALSE
  /\ lastEvent' = "touchstart"
  /\ finger' = "ignored"
  /\ wellFormed' = (wellFormed /\ finger = "up")
  /\ callsSince' = 0
  /\ UNCHANGED << config, classes, timers, calls, cycle, callsFor, cancelled,
                  tapEnded >>
  /\ ObserveScen("touchstart", FALSE, FALSE)

\* touchstart handler: onlyIf(this) raises an error, which leaves the
\* handler before any statement of its body.
TouchStartThrows ==
  /\ touchSupported
  /\ GuardThrows
  /\ guardResult' = "throw"
  /\ raised' = TRUE
  /\ lastEvent' = "touchstart"
  /\ finger' = "ignored"
  /\ wellFormed' = (wellFormed /\ finger = "up")
  /\ callsSince' = 0
  /\ UNCHANGED << config, classes, timers, calls, cycle, callsFor, cancelled,
                  tapEnded >>
  /\ ObserveScen("touchstart", FALSE, FALSE)

\* The function passed to window.setTimeout runs. Timers of one binding all
\* have the delay touchDelay, so they run in the order they were scheduled.
TimerFire ==
  /\ timers # <<>>
  /\ \E o \in (IF TimerFires(classes) THEN FireOutcomes ELSE NoFire) :
       /\ classes' = IF o.raised THEN TimerClassesOnThrow(classes)
                     ELSE TimerClasses(classes)
       /\ raised' = o.raised
       /\ timers' = Tail(timers)
       /\ calls' = calls + Bump(o.fired)
       /\ callsFor' = [callsFor EXCEPT ![Head(timers)] = @ + Bump(o.fired)]
       /\ callsSince' = callsSince + Bump(o.fired)
       /\ guardResult' = o.guard
       /\ ObserveScen("timer", FALSE, o.fired)
  /\ lastEvent' = "timer"
  /\ UNCHANGED << config, cycle, cancelled, tapEnded, finger, wellFormed >>

\* touchend handler.
TouchEnd ==
  /\ touchSupported
  /\ \E o \in (IF TouchEndFires(classes) THEN FireOutcomes ELSE NoFire) :
       /\ classes' = IF o.raised THEN TouchEndClassesOnThrow(classes)
                     ELSE TouchEndClasses(classes)
       /\ raised' = o.raised
       /\ calls' = calls + Bump(o.fired)
       /\ callsFor' = IF o.fired
                      THEN [callsFor EXCEPT ![cycle] = @ + 1]
                      ELSE callsFor
       /\ callsSince' = callsSince + Bump(o.fired)
       /\ guardResult' = o.guard
       /\ ObserveScen("touchend", FALSE, o.fired)
  /\ lastEvent' = "touchend"
  /\ tapEnded' = IF finger = "down" THEN tapEnded \cup {cycle} ELSE tapEnded
  /\ finger' = "up"
  /\ wellFormed' = (wellFormed /\ finger # "up")
  /\ UNCHANGED << config, timers, cycle, cancelled >>

\* Mutant: the touchmove handler is bound whatever cancelOnMove is.
TouchMoveAlwaysBound ==
  /\ touchSupported
  /\ classes' = TouchMoveClasses(classes)
  /\ cancelled' = IF cancelOnMove /\ finger \in {"down", "moved"}
                  THEN cancelled \cup {cycle} ELSE cancelled
  /\ finger' = IF finger = "down" THEN "moved" ELSE finger
  /\ wellFormed' = (wellFormed /\ finger # "up")
  /\ lastEvent' = "touchmove"
  /\ guardResult' = "none"
  /\ raised' = FALSE
  /\ ObserveScen("touchmove", FALSE, FALSE)
  /\ UNCHANGED << config, timers, calls, cycle, callsFor, callsSince,
                  tapEnded >>

\* touchmove: the handler is bound only if cancelOnMove.
TouchMove ==
  /\ touchSupported
  /\ classes' = IF cancelOnMove THEN TouchMoveClasses(classes) ELSE classes
  /\ cancelled' = IF cancelOnMove /\ finger \in {"down", "moved"}
                  THEN cancelled \cup {cycle} ELSE cancelled
  /\ finger' = IF finger = "down" THEN "moved" ELSE finger
  /\ wellFormed' = (wellFormed /\ finger # "up")
  /\ lastEvent' = "touchmove"
  /\ guardResult' = "none"
  /\ raised' = FALSE
  /\ ObserveScen("touchmove", FALSE, FALSE)
  /\ UNCHANGED << config, timers, calls, cycle, callsFor, callsSince,
                  tapEnded >>

\* Mutant: the click handler of the fallback is bound with touch support too.
ClickSuppressedFires ==
  /\ touchSupported
  /\ callback = "function"
  /\ calls < MaxClicks
  /\ calls' = calls + 1
  /\ callsSince' = callsSince + 1
  /\ lastEvent' = "click"
  /\ guardResult' = "true"
  /\ raised' = FALSE
  /\ UNCHANGED << config, classes, timers, cycle, callsFor, cancelled,
                  tapEnded, finger, wellFormed >>
  /\ ObserveScen("click", FALSE, TRUE)

\* click with touch support: event.preventDefault() only.
ClickSuppressed ==
  /\ touchSupported
  /\ lastEvent' = "click"
  /\ guardResult' = "none"
  /\ raised' = FALSE
  /\ UNCHANGED << config, classes, timers, calls, cycle, callsFor, callsSince,
                  cancelled, tapEnded, finger, wellFormed >>
  /\ ObserveScen("click", FALSE, FALSE)

\* click without touch support: bound only if the callback is a function.
ClickFallback ==
  /\ ~touchSupported
  /\ callback = "function"
  /\ calls < MaxClicks
  /\ \E o \in FireOutcomes :
       /\ calls' = calls + Bump(o.fired)
       /\ callsSince' = callsSince + Bump(o.fired)
       /\ guardResult' = o.guard
       /\ raised' = o.raised
  /\ lastEvent' = "click"
  /\ UNCHANGED << config, classes, timers, cycle, callsFor, cancelled,
                  tapEnded, finger, wellFormed, scen, scenCalls, scenHi >>

Next ==
  \/ TouchStartAccepted
  \/ TouchStartRejected
  \/ TouchStartThrows
  \/ TimerFire
  \/ TouchEnd
  \/ TouchMove
  \/ ClickSuppressed
  \/ ClickFallback

Spec == Init /\ [][Next]_vars

\* Every scheduled timer eventually runs.
FairSpec == Spec /\ WF_vars(TimerFire)

TypeOK ==
  /\ touchSupported \in BOOLEAN
  /\ callback \in {"function", "undefined"}
  /\ cancelOnMove \in BOOLEAN
  /\ onlyIf \in {"default", "custom"}
  /\ classes \subseteq Markers
  /\ cycle \in 0..MaxStarts
  /\ Len(timers) <= MaxStarts
  /\ cancelled \subseteq 0..MaxStarts
  /\ tapEnded \subseteq 0..MaxStarts
  /\ finger \in {"up", "down", "moved", "ignored"}
  /\ Len(scen) <= ScenLen
  /\ guardResult \in {"none", "true", "false", "throw"}
  /\ touchDelay \in {0, 150}
  /\ raised \in BOOLEAN

----------------------------------------------------------------------------
\* The phases of the specification's transition table, read off the classes.
ACTIVE == hasClass(classes, "touched")

PENDING == hasClass(classes, "touch-started") /\ ~ACTIVE

ENDED_EARLY == hasClass(classes, "touch-ended")

IDLE == classes = {}

\* The preconditions "callable action" and "guard always true".
Tappable == touchSupported /\ callback = "function"

GuardAlwaysTrue == onlyIf = "default"

\* The step is the run of a timer / of the touchend handler.
TimerStep == timers # <<>> /\ timers' = Tail(timers)

TouchEndStep == lastEvent' = "touchend"

\* C1: on a touch-capable platform the action is invoked at most once per
\* touch-start/touch-end cycle, however the cycle's calls are counted: as the
\* calls made by the cycle's touchend and by the cycle's own timer, or as the
\* calls made since the cycle's touchstart. Stated for the event sequences in
\* which touchstart and touchend alternate, where cycles are well defined.
AtMostOncePerCycle ==
  (touchSupported /\ wellFormed) =>
     \/ \A c \in Cycles : callsFor[c] <= 1
     \/ callsSince <= 1

\* C2: a timer scheduled by an earlier touchstart that runs after a later
\* touchstart has begun a new cycle changes no class and invokes no action.
StaleTimerHasNoEffect ==
  [][(wellFormed /\ TimerStep /\ Head(timers) < cycle)
       => (classes' = classes /\ calls' = calls)]_vars

\* C3: quick tap. From an element with no class and no outstanding timer,
\* guard always true: touchstart, touchend, then the timer: exactly one
\* action invocation, made when the timer runs, and 'touched' never set.
QuickTapFiresOnceAtTimer ==
  (Tappable /\ GuardAlwaysTrue) =>
     /\ scen \in {<<"touchstart">>, <<"touchstart", "touchend">>}
          => (scenCalls = 0 /\ ~scenHi)
     /\ scen = <<"touchstart", "touchend", "timer">>
          => (scenCalls = 1 /\ ~scenHi)

QuickTapDone ==
  Tappable /\ GuardAlwaysTrue /\ scen = <<"touchstart", "touchend", "timer">>

\* C4: held press. From an element with no class and no outstanding timer,
\* guard always true: touchstart, then the timer: 'touched' set and no
\* invocation; the touchend that follows invokes the action, exactly once,
\* and removes 'touched'.
HeldPressFiresAtTouchEnd ==
  (Tappable /\ GuardAlwaysTrue) =>
     /\ scen = <<"touchstart">> => scenCalls = 0
     /\ scen = <<"touchstart", "timer">> => (ACTIVE /\ scenCalls = 0)
     /\ scen = <<"touchstart", "timer", "touchend">>
          => (~ACTIVE /\ scenCalls = 1)

HeldPressDone ==
  Tappable /\ GuardAlwaysTrue /\ scen = <<"touchstart", "timer", "touchend">>

\* C5: with cancelOnMove, a touchmove clears the three classes, and the
\* action is never invoked for a cycle in which a touchmove was handled:
\* neither by the cycle's touchend nor by the cycle's timer.
MoveCancelsCycle ==
  (touchSupported /\ cancelOnMove /\ wellFormed) =>
     /\ lastEvent = "touchmove" => classes = {}
     /\ \A c \in cancelled \cap Cycles : callsFor[c] = 0

\* C6: with a callable action and guard always true, every touchstart that
\* is followed by its touchend with no touchmove in between eventually
\* leads to an action invocation for that tap, provided every timer
\* eventually runs.
EveryTapCompletes ==
  (Tappable /\ GuardAlwaysTrue /\ []wellFormed) =>
     \A c \in Cycles : (c \in tapEnded) ~> (callsFor[c] >= 1)

\* C7: at most one of the three classes is set on the element.
MarkersMutuallyExclusive == Cardinality(classes) <= 1

\* C8: 'touched' and 'touch-ended' are never both set.
NeverActiveAndEndedEarly == ~(ACTIVE /\ ENDED_EARLY)

\* 'touched' has just been set by a stale timer: the timer of the current
\* cycle is still outstanding.
ActiveByStaleTimer == ACTIVE /\ lastEvent = "timer" /\ timers # <<>>

\* C9: a touchend handled while 'touched' is set removes 'touched', invokes
\* the action iff onlyIf(el) is true at that moment, and leaves the element
\* with no class at all.
TouchEndInActiveGoesIdle ==
  [][(TouchEndStep /\ ACTIVE)
       => /\ ~hasClass(classes', "touched")
          /\ (calls' = calls + 1) <=> (guardResult' = "true")
          /\ classes' = {}]_vars

\* C10: a timer run while 'touch-ended' is set invokes the action iff
\* onlyIf(el) is true at that moment, and leaves the element with no class
\* at all.
TimerInEndedEarlyGoesIdle ==
  [][(TimerStep /\ ENDED_EARLY)
       => /\ (calls' = calls + 1) <=> (guardResult' = "true")
          /\ classes' = {}]_vars

\* The step is the run of the touchstart handler with onlyIf(this) true /
\* falsy, of the touchmove event, of a click.
AcceptedStartStep == lastEvent' = "touchstart" /\ guardResult' = "true"

RejectedStartStep == lastEvent' = "touchstart" /\ guardResult' = "false"

TouchMoveStep == lastEvent' = "touchmove"

ClickStep == lastEvent' = "click"

\* C11: a run of the timer callback that finds the element with no class
\* (IDLE) invokes no action and changes no class.
TimerInIdleIsNoOp ==
  [][(TimerStep /\ IDLE) => (classes' = classes /\ calls' = calls)]_vars

\* The last of two or more timers has just run on an element that had no
\* class, after a touchmove cleared them.
TimerRanInIdle ==
  IDLE /\ lastEvent = "timer" /\ cycle >= 2 /\ timers = <<>>

\* C12: the action is never invoked in a step in which onlyIf(el) returns
\* false; when it returns false at resolution (touchend with 'touched' set,
\* timer with 'touch-ended' set) the classes end as they end when it
\* returns true: 'touched' removed by the touchend, nothing changed by the
\* timer.
GuardReevaluated ==
  [][guardResult' = "false" =>
       /\ calls' = calls
       /\ (TouchEndStep /\ ACTIVE) => classes' = classes \ {"touched"}
       /\ (TimerStep /\ ENDED_EARLY) => classes' = classes]_vars

\* onlyIf accepted the touchstart and returned false at the touchend that
\* found 'touched' set.
GuardFalseAtTouchEnd ==
  /\ lastEvent = "touchend"
  /\ guardResult = "false"
  /\ cycle >= 1
  /\ ~ACTIVE

\* C13: a touchstart for which onlyIf(this) is falsy changes no class,
\* schedules no timer and invokes no action.
RejectedTouchStartIsNoOp ==
  [][RejectedStartStep =>
       (classes' = classes /\ timers' = timers /\ calls' = calls)]_vars

\* A touchstart was rejected on an element that had classes set.
RejectedOnMarkedElement ==
  lastEvent = "touchstart" /\ guardResult = "false" /\ classes # {}

\* C14: with cancelOnMove false a touchmove changes no class, no timer and
\* makes no call, so every later handler finds the state it finds in the
\* sequence without the touchmove.
MoveIgnoredWithoutCancelOnMove ==
  [][(TouchMoveStep /\ ~cancelOnMove) =>
       (classes' = classes /\ timers' = timers /\ calls' = calls)]_vars

\* A touchmove arrived during a press with cancelOnMove false.
MovedWithoutCancelOnMove ==
  ~cancelOnMove /\ lastEvent = "touchmove" /\ classes # {} /\ timers # <<>>

\* C16: without touch support and with an action configured, a click
\* invokes the action exactly once if onlyIf(this) is true and not at all
\* otherwise, and no class is ever set on the element; with no action no
\* handler ever runs. With touch support a click never invokes the action.
\* A click never changes a class.
ClickInvokesOnlyInFallback ==
  /\ [][ClickStep =>
          /\ classes' = classes
          /\ timers' = timers
          /\ calls' = calls + (IF ~touchSupported /\ guardResult' = "true"
                               THEN 1 ELSE 0)]_vars
  /\ [](~touchSupported => (classes = {} /\ timers = <<>>))
  /\ []((~touchSupported /\ callback # "function")
          => (calls = 0 /\ lastEvent = "none"))

\* The click fallback has just invoked the action.
FallbackClickFired ==
  ~touchSupported /\ lastEvent = "click" /\ guardResult = "true" /\ calls >= 1

\* C17: with touch support and an action that is not a function the action
\* is never invoked (the call is never attempted), and the classes follow
\* the same transitions as with a function: the transitions below are
\* stated for every configuration.
NonCallableActionTolerated ==
  touchSupported =>
     /\ callback # "function" => calls = 0
     /\ scen = <<"touchstart">> => classes = {"touch-started"}
     /\ scen = <<"touchstart", "timer">>
          => classes = {"touch-started", "touched"}
     /\ scen = <<"touchstart", "timer", "touchend">>
          => classes = {"touch-started"}
     /\ scen = <<"touchstart", "touchend">> => classes = {"touch-ended"}
     /\ scen = <<"touchstart", "touchend", "timer">>
          => classes = {"touch-ended"}
     /\ (cancelOnMove /\ scen = <<"touchstart", "touchmove">>)
          => classes = {}

\* Without a callable action the timer has run with 'touch-ended' set, where
\* fireCallback is reached.
NonCallableReachedFire ==
  /\ touchSupported
  /\ callback # "function"
  /\ scen = <<"touchstart", "touchend", "timer">>

\* C18: when the latest touch event was a touchend, or a touchmove with
\* cancelOnMove, and no timer is outstanding, 'touched' is not set.
NoHighlightWhenQuiescent ==
  (/\ touchSupported
   /\ wellFormed
   /\ timers = <<>>
   /\ \/ finger = "up"
      \/ cancelOnMove /\ finger = "moved") => ~ACTIVE

\* C19: a touchstart for which onlyIf(this) is true removes 'touched' and
\* 'touch-ended', adds 'touch-started' and schedules exactly one timer,
\* whatever the classes and the outstanding timers; and the number of
\* action invocations on the element never exceeds the number of such
\* touchstarts.
AcceptedTouchStartResets ==
  /\ [][AcceptedStartStep =>
          /\ classes' = (classes \ {"touched", "touch-ended"})
                          \cup {"touch-started"}
          /\ Len(timers') = Len(timers) + 1
          /\ cycle' = cycle + 1]_vars
  /\ [](touchSupported => calls <= cycle)

\* A touchstart was accepted while an earlier timer was outstanding and after
\* an invocation.
AcceptedWithTimersOutstanding ==
  /\ lastEvent = "touchstart"
  /\ guardResult = "true"
  /\ Len(timers) >= 2
  /\ calls >= 1

\* C15: for every touchDelay, 0 included, when the touchstart handler
\* returns after onlyIf accepted, 'touch-started' is set, 'touched' is not,
\* no action was invoked and the timer it scheduled has not run; with
\* touchDelay = 0 the touchend can therefore come before the timer
\* (ZeroDelayEndedEarly is reachable).
TimerNeverRunsInsideTouchStart ==
  [][AcceptedStartStep =>
       /\ hasClass(classes', "touch-started")
       /\ ~hasClass(classes', "touched")
       /\ ~hasClass(classes', "touch-ended")
       /\ calls' = calls
       /\ timers' = Append(timers, cycle')]_vars

\* With touchDelay = 0 the touchend was handled before the timer of its
\* touchstart: 'touch-ended' is set and the timer is outstanding.
ZeroDelayEndedEarly ==
  /\ touchDelay = 0
  /\ lastEvent = "touchend"
  /\ ENDED_EARLY
  /\ timers = <<cycle>>

\* C20: errors are not recovered. When onlyIf raises in the touchstart
\* handler no class is changed and no timer scheduled; when onlyIf or the
\* action raises in a touchend that found 'touched', 'touched' has been
\* removed; when it raises in a timer that found 'touch-ended', the classes
\* are as before the timer ran.
ErrorsLeaveHandlerMidway ==
  [][raised' =>
       /\ lastEvent' = "touchstart"
            => (classes' = classes /\ timers' = timers)
       /\ (TouchEndStep /\ ACTIVE) => ~hasClass(classes', "touched")
       /\ (TimerStep /\ ENDED_EARLY) => classes' = classes]_vars

\* The action or onlyIf raised in a touchend that found 'touched'.
RaisedAtTouchEnd == raised /\ lastEvent = "touchend" /\ ~ACTIVE

====
